---- MODULE Spec2Model ----
(***************************************************************************)
(* Model of the transport of montycat_node: sendData (src/core/engine.ts)  *)
(* with its socket handlers, and the decoder recursiveParseJSON it uses.   *)
(*                                                                         *)
(* One behaviour is one call of sendData: the promise, the socket, the     *)
(* receive buffer and the subscription handle.  The server's bytes, their  *)
(* split into chunks and the socket's events are chosen by the environment.*)
(***************************************************************************)
EXTENDS Naturals, Sequences, FiniteSets

(***************************************************************************)
(* Bounds of the model.                                                    *)
(***************************************************************************)
\* bytes the server sends over one connection
MaxStream == 4
\* calls of stop() made from outside the handlers
MaxStops == 2

(***************************************************************************)
(* Bytes and characters.  "C3" and "A9" are the bytes 0xC3 0xA9, the UTF-8 *)
(* encoding of U+00E9; every other byte is the ASCII character it names.   *)
(***************************************************************************)
NL == "\n"
QUOTE == "\""
SPACE == " "
Bytes == {"7", QUOTE, SPACE, NL, "C3", "A9"}

Last(s) == s[Len(s)]
Front(s) == SubSeq(s, 1, Len(s) - 1)

SeqsUpTo(S, n) == UNION {[1..k -> S] : k \in 1..n}

\* Buffer.toString() (utf8): a complete sequence decodes to its character, a
\* lead byte without its continuation byte and a continuation byte without
\* its lead byte each decode to U+FFFD.
RECURSIVE ToString(_)
ToString(b) ==
    IF b = <<>> THEN <<>>
    ELSE IF Head(b) = "C3" /\ Len(b) >= 2 /\ b[2] = "A9"
         THEN <<"U+E9">> \o ToString(SubSeq(b, 3, Len(b)))
    ELSE IF Head(b) \in {"C3", "A9"}
         THEN <<"U+FFFD">> \o ToString(Tail(b))
    ELSE <<Head(b)>> \o ToString(Tail(b))

\* String.prototype.split("\n"): n separators give n+1 parts.
RECURSIVE Split(_)
Split(s) ==
    IF \A i \in 1..Len(s) : s[i] # NL THEN <<s>>
    ELSE LET i == CHOOSE j \in 1..Len(s) :
                      s[j] = NL /\ \A k \in 1..(j - 1) : s[k] # NL
         IN  <<SubSeq(s, 1, i - 1)>> \o Split(SubSeq(s, i + 1, Len(s)))

\* String.prototype.trim()
RECURSIVE Trim(_)
Trim(s) ==
    IF s = <<>> THEN s
    ELSE IF Head(s) = SPACE THEN Trim(Tail(s))
    ELSE IF Last(s) = SPACE THEN Trim(Front(s))
    ELSE s

\* String.prototype.includes
Includes(text, pat) ==
    \E i \in 0..(Len(text) - Len(pat)) : SubSeq(text, i + 1, i + Len(pat)) = pat

(***************************************************************************)
(* Values: what a promise resolves and what onMessage receives.            *)
(***************************************************************************)
Str(s) == [t |-> "str", s |-> s]
Num(s) == [t |-> "num", s |-> s]
Bool(b) == [t |-> "bool", b |-> b]
Null == [t |-> "null"]
\* an array, and an object: its own properties in the order Object.entries
\* and JSON.stringify enumerate them
Arr(items) == [t |-> "arr", items |-> items]
Obj(entries) == [t |-> "obj", entries |-> entries]
ParseError == [t |-> "error"]

Digits == {"0", "1", "2", "3", "4", "5", "6", "7", "8", "9"}
DigitOrder == <<"0", "1", "2", "3", "4", "5", "6", "7", "8", "9">>
DigitVal(c) == CHOOSE i \in 1..10 : DigitOrder[i] = c

\* /^\d+$/
IsDigits(s) == s # <<>> /\ \A i \in 1..Len(s) : s[i] \in Digits

RECURSIVE StripZeros(_)
StripZeros(s) == IF Len(s) > 1 /\ Head(s) = "0" THEN StripZeros(Tail(s)) ELSE s

U64Max == <<"1","8","4","4","6","7","4","4","0","7",
            "3","7","0","9","5","5","1","6","1","5">>

\* 2^64
U64Over == <<"1","8","4","4","6","7","4","4","0","7",
             "3","7","0","9","5","5","1","6","1","6">>

\* lexicographic <= of two digit strings of equal length
RECURSIVE DigitsLeq(_, _)
DigitsLeq(a, b) ==
    IF a = <<>> THEN TRUE
    ELSE IF Head(a) # Head(b) THEN DigitVal(Head(a)) < DigitVal(Head(b))
    ELSE DigitsLeq(Tail(a), Tail(b))

\* numeric <= of a digit string and a digit string without leading zeros
LeqDecimal(s, bound) ==
    LET d == StripZeros(s)
    IN  Len(d) < Len(bound) \/ (Len(d) = Len(bound) /\ DigitsLeq(d, bound))

\* BigInt(data) <= 18446744073709551615n
LeqU64(s) == LeqDecimal(s, U64Max)

\* Number.MAX_SAFE_INTEGER, 2^53 - 1
MaxSafeInteger == <<"9","0","0","7","1","9","9","2","5","4","7","4","0","9","9","1">>

\* the largest array index, 2^32 - 2
MaxArrayIndex == <<"4","2","9","4","9","6","7","2","9","4">>

(***************************************************************************)
(* Objects.  A property whose name is an array index (a canonical decimal  *)
(* number up to 2^32 - 2) is enumerated before the other properties, in    *)
(* ascending order; the other properties follow in the order they were     *)
(* created.  Assigning to an existing property keeps its place.            *)
(***************************************************************************)
IsArrayIndex(key) ==
    IsDigits(key) /\ StripZeros(key) = key /\ LeqDecimal(key, MaxArrayIndex)

\* a < b, for array indexes
IndexLess(a, b) ==
    Len(a) < Len(b) \/ (Len(a) = Len(b) /\ a # b /\ DigitsLeq(a, b))

\* object[key] = val
SetProperty(entries, key, val) ==
    IF \E i \in 1..Len(entries) : entries[i].key = key
    THEN [i \in 1..Len(entries) |->
            IF entries[i].key = key THEN [key |-> key, val |-> val]
            ELSE entries[i]]
    ELSE IF IsArrayIndex(key)
    THEN LET before == {i \in 1..Len(entries) :
                          /\ IsArrayIndex(entries[i].key)
                          /\ IndexLess(entries[i].key, key)}
             n == Cardinality(before)
         IN  SubSeq(entries, 1, n) \o <<[key |-> key, val |-> val]>>
                \o SubSeq(entries, n + 1, Len(entries))
    ELSE Append(entries, [key |-> key, val |-> val])

\* Object.fromEntries
RECURSIVE AssignAll(_, _)
AssignAll(entries, pairs) ==
    IF pairs = <<>> THEN entries
    ELSE AssignAll(SetProperty(entries, Head(pairs).key, Head(pairs).val),
                   Tail(pairs))

FromEntries(pairs) == Obj(AssignAll(<<>>, pairs))

(***************************************************************************)
(* Custom keys, Pointer and Timestamp.                                     *)
(***************************************************************************)
\* xxhash.h32().update(key).digest().toNumber().toString(), for the custom
\* keys "a" and "k"
convertCustomKey(key) ==
    CASE key = <<"a">> -> <<"1","4","2","6","9","4","5","1","1","0">>
      [] key = <<"k">> -> <<"3","9","3","1","1","3","5","0","1","2">>

Undefined == [t |-> "undefined"]

\* new Pointer({ keyspace, key, customKey }); key and customKey default to ''
Pointer(keyspace, key, customKey) ==
    [t |-> "Pointer",
     keyspace |-> keyspace,
     key |-> IF key # <<>> THEN Str(key)
             ELSE IF customKey # <<>> THEN Str(convertCustomKey(customKey))
             ELSE Undefined]

\* new Timestamp({ timestamp })
Timestamp(timestamp) == [t |-> "Timestamp", timestamp |-> timestamp]

\* setupPointer(): [keyspace, key], or it throws
PointerIsValid(pointer) == pointer.keyspace # <<>> /\ pointer.key # Undefined

setupPointer(pointer) == Arr(<<Str(pointer.keyspace), pointer.key>>)

\* the own properties of an instance, as JSON.stringify sees them: a
\* property that is undefined is left out
OwnProperties(instance) ==
    IF instance.t = "Timestamp"
    THEN Obj(<<[key |-> <<"t","i","m","e","s","t","a","m","p">>,
                val |-> Str(instance.timestamp)]>>)
    ELSE Obj(<<[key |-> <<"k","e","y","s","p","a","c","e">>,
                val |-> Str(instance.keyspace)]>>
             \o (IF instance.key = Undefined THEN <<>>
                 ELSE <<[key |-> <<"k","e","y">>, val |-> instance.key]>>))

(***************************************************************************)
(* JSON.stringify, on the values of this model: strings are quoted and a   *)
(* quote or a backslash inside is escaped; an integer is its decimal       *)
(* digits.                                                                 *)
(***************************************************************************)
BACKSLASH == "\\"

RECURSIVE Escaped(_)
Escaped(chars) ==
    IF chars = <<>> THEN <<>>
    ELSE IF Head(chars) \in {QUOTE, BACKSLASH}
         THEN <<BACKSLASH, Head(chars)>> \o Escaped(Tail(chars))
    ELSE <<Head(chars)>> \o Escaped(Tail(chars))

Quoted(chars) == <<QUOTE>> \o Escaped(chars) \o <<QUOTE>>

RECURSIVE Stringify(_)
RECURSIVE StringifyItems(_)
RECURSIVE StringifyEntries(_)
Stringify(v) ==
    CASE v.t = "str" -> Quoted(v.s)
      [] v.t = "num" -> v.s
      [] v.t = "bool" -> IF v.b THEN <<"t", "r", "u", "e">>
                         ELSE <<"f", "a", "l", "s", "e">>
      [] v.t = "null" -> <<"n", "u", "l", "l">>
      [] v.t = "arr" -> <<"[">> \o StringifyItems(v.items) \o <<"]">>
      [] v.t = "obj" -> <<"{">> \o StringifyEntries(v.entries) \o <<"}">>
      [] v.t \in {"Pointer", "Timestamp"} -> Stringify(OwnProperties(v))

StringifyItems(items) ==
    IF items = <<>> THEN <<>>
    ELSE Stringify(Head(items))
            \o (IF Len(items) > 1 THEN <<",">> ELSE <<>>)
            \o StringifyItems(Tail(items))

StringifyEntries(entries) ==
    IF entries = <<>> THEN <<>>
    ELSE Quoted(Head(entries).key) \o <<":">> \o Stringify(Head(entries).val)
            \o (IF Len(entries) > 1 THEN <<",">> ELSE <<>>)
            \o StringifyEntries(Tail(entries))

(***************************************************************************)
(* JSONbig.parse with storeAsString: the recursive-descent parser of       *)
(* json-bigint, on texts of spaces, digits, string literals, the words     *)
(* true, false and null, arrays and objects.  A parsing step gives the     *)
(* value read and the text that follows it, or fails.                      *)
(***************************************************************************)
Failed == [ok |-> FALSE]
Read(v, rest) == [ok |-> TRUE, v |-> v, rest |-> rest]

\* white(): skip the characters up to ' '
RECURSIVE White(_)
White(s) == IF s # <<>> /\ Head(s) = SPACE THEN White(Tail(s)) ELSE s

\* the digits a text starts with
RECURSIVE LeadingDigits(_)
LeadingDigits(s) ==
    IF s # <<>> /\ Head(s) \in Digits
    THEN <<Head(s)>> \o LeadingDigits(Tail(s))
    ELSE <<>>

\* Number.isSafeInteger(+string)
IsSafeInteger(digits) == LeqDecimal(digits, MaxSafeInteger)

\* number(): an integer that a double holds exactly is a number, a larger
\* one is kept as the string of its digits (storeAsString)
ParseNumber(s) ==
    LET string == LeadingDigits(s)
        rest == SubSeq(s, Len(string) + 1, Len(s))
    IN  IF IsSafeInteger(string) THEN Read(Num(StripZeros(string)), rest)
        ELSE Read(Str(string), rest)

\* string(), after the opening quote: up to the closing quote, a backslash
\* taking the next character with it
RECURSIVE ParseChars(_, _)
ParseChars(s, acc) ==
    IF s = <<>> THEN Failed
    ELSE IF Head(s) = QUOTE THEN Read(Str(acc), Tail(s))
    ELSE IF Head(s) = BACKSLASH
         THEN IF Len(s) >= 2 /\ s[2] \in {QUOTE, BACKSLASH}
              THEN ParseChars(SubSeq(s, 3, Len(s)), Append(acc, s[2]))
              ELSE Failed
    ELSE ParseChars(Tail(s), Append(acc, Head(s)))

ParseString(s) ==
    IF s # <<>> /\ Head(s) = QUOTE THEN ParseChars(Tail(s), <<>>) ELSE Failed

StartsWith(s, w) == Len(s) >= Len(w) /\ SubSeq(s, 1, Len(w)) = w
After(s, w) == SubSeq(s, Len(w) + 1, Len(s))

\* word()
ParseWord(s) ==
    IF StartsWith(s, <<"t", "r", "u", "e">>)
    THEN Read(Bool(TRUE), After(s, <<"t", "r", "u", "e">>))
    ELSE IF StartsWith(s, <<"f", "a", "l", "s", "e">>)
    THEN Read(Bool(FALSE), After(s, <<"f", "a", "l", "s", "e">>))
    ELSE IF StartsWith(s, <<"n", "u", "l", "l">>)
    THEN Read(Null, After(s, <<"n", "u", "l", "l">>))
    ELSE Failed

RECURSIVE ParseValue(_)
RECURSIVE ParseItems(_, _)
RECURSIVE ParseEntries(_, _)

\* value()
ParseValue(text) ==
    LET s == White(text)
    IN  IF s = <<>> THEN Failed
        ELSE IF Head(s) = "{"
        THEN LET inner == White(Tail(s))
             IN  IF inner # <<>> /\ Head(inner) = "}"
                 THEN Read(Obj(<<>>), Tail(inner))
                 ELSE ParseEntries(inner, <<>>)
        ELSE IF Head(s) = "["
        THEN LET inner == White(Tail(s))
             IN  IF inner # <<>> /\ Head(inner) = "]"
                 THEN Read(Arr(<<>>), Tail(inner))
                 ELSE ParseItems(inner, <<>>)
        ELSE IF Head(s) = QUOTE THEN ParseString(s)
        ELSE IF Head(s) \in Digits THEN ParseNumber(s)
        ELSE ParseWord(s)

\* array(), after '[' and white(): values separated by ',' up to ']'
ParseItems(s, acc) ==
    LET item == ParseValue(s)
    IN  IF ~item.ok THEN Failed
        ELSE LET next == White(item.rest)
                 items == Append(acc, item.v)
             IN  IF next = <<>> THEN Failed
                 ELSE IF Head(next) = "]" THEN Read(Arr(items), Tail(next))
                 ELSE IF Head(next) = ","
                      THEN ParseItems(White(Tail(next)), items)
                 ELSE Failed

\* object(), after '{' and white(): "key": value separated by ',' up to '}';
\* object[key] = value
ParseEntries(s, acc) ==
    LET key == ParseString(s)
    IN  IF ~key.ok THEN Failed
        ELSE LET colon == White(key.rest)
             IN  IF colon = <<>> \/ Head(colon) # ":" THEN Failed
                 ELSE LET val == ParseValue(Tail(colon))
                      IN  IF ~val.ok THEN Failed
                          ELSE LET next == White(val.rest)
                                   entries == SetProperty(acc, key.v.s, val.v)
                               IN  IF next = <<>> THEN Failed
                                   ELSE IF Head(next) = "}"
                                        THEN Read(Obj(entries), Tail(next))
                                   ELSE IF Head(next) = ","
                                        THEN ParseEntries(White(Tail(next)), entries)
                                   ELSE Failed

\* result = value(); white(); if (ch) error("Syntax error")
JSONbigParse(s) ==
    LET result == ParseValue(s)
    IN  IF result.ok /\ White(result.rest) = <<>> THEN result.v
        ELSE ParseError

\* parseInt(key, 10) and the name of the property the number then names:
\* the digits the key starts with, after any white space; NaN without such
\* digits, and then the key itself is used
ParsedKey(key) ==
    LET digits == LeadingDigits(White(key))
    IN  IF digits = <<>> THEN key ELSE StripZeros(digits)

\* the guard kept only for the integers a double does not hold exactly
IsU64StringUnsafeOnly(chars) ==
    IsDigits(chars) /\ LeqU64(chars) /\ ~IsSafeInteger(chars)

\* /^\d+$/.test(data) && BigInt(data) <= 18446744073709551615n
IsU64String(chars) == IsDigits(chars) /\ LeqU64(chars)

\* return recursiveParseJSON(parsedData) with parsedData the string the call
\* was given: every call makes the same call, until the call stack is
\* exhausted; the RangeError is thrown inside the try of the innermost call,
\* whose catch returns data, and every call below it returns that
CallsItself(data, parsedData) == parsedData = data

RECURSIVE recursiveParseJSON(_)
RECURSIVE ParseEach(_)
RECURSIVE ParseEachEntry(_)
recursiveParseJSON(data) ==
    IF data.t = "str"
    THEN IF IsU64String(data.s) THEN data
         ELSE LET parsedData == JSONbigParse(data.s)
              IN  IF parsedData.t = "error" THEN data
                  ELSE IF CallsItself(data, parsedData) THEN data
                  ELSE recursiveParseJSON(parsedData)
    ELSE IF data.t = "arr" THEN Arr(ParseEach(data.items))
    ELSE IF data.t = "obj" THEN FromEntries(ParseEachEntry(data.entries))
    ELSE data

\* data.map((item) => recursiveParseJSON(item))
ParseEach(items) ==
    IF items = <<>> THEN <<>>
    ELSE <<recursiveParseJSON(Head(items))>> \o ParseEach(Tail(items))

\* Object.entries(data).map(([key, value]) => [parsedKey, recursiveParseJSON(value)])
ParseEachEntry(entries) ==
    IF entries = <<>> THEN <<>>
    ELSE <<[key |-> ParsedKey(Head(entries).key),
            val |-> recursiveParseJSON(Head(entries).val)]>>
            \o ParseEachEntry(Tail(entries))

\* whether recursiveParseJSON(text) throws: the string branch catches whatever
\* JSONbig.parse throws and returns its argument
ParseThrows(text) == FALSE

(***************************************************************************)
(* The message: the serialized envelope handed to sendData.  Its text is   *)
(* the command name and the caller's payload; Chars spells a word out.     *)
(***************************************************************************)
Subscribe == <<"s", "u", "b", "s", "c", "r", "i", "b", "e">>

Chars(w) ==
    CASE w = "get" -> <<"g", "e", "t">>
      [] w = "subscribe" -> Subscribe
      [] w = "x" -> <<"x">>
      [] w = "unsubscribed" -> <<"u", "n">> \o Subscribe \o <<"d">>

Commands == {"get", "subscribe"}
Payloads == {"x", "unsubscribed"}
\* a request-response command, the same with a payload that mentions the word,
\* and a subscription command
Envelopes ==
    {env \in [command : Commands, value : Payloads] :
        env.command = "subscribe" => env.value = "x"}

\* JSON text of the envelope: every field is part of the message
Message(env) ==
    <<"{">> \o Chars(env.command) \o <<",">> \o Chars(env.value) \o <<"}">>

(***************************************************************************)
(* Results                                                                 *)
(***************************************************************************)
Pending == [t |-> "pending"]
Handle == [t |-> "handle"]
Indicator(text) == [t |-> "indicator", s |-> text]
ConnectionError == Indicator("Connection error: ...")
TimedOut == Indicator("Operation timed out")
HandshakeTimedOut == Indicator("TLS handshake timeout")
Incomplete == Indicator("Incomplete or invalid response")
FailedToParse == Indicator("Failed to parse response: ...")

\* a decoded payload, with the text it was decoded from
Decoded(v, text) == [t |-> "value", v |-> v, from |-> text]

VARIABLES
    useTls,          \* parameter useTls
    envelope,        \* the envelope whose text is the parameter message
    hasCallback,     \* whether the parameter callback was given: callers give
                     \* one with the commands that subscribe
    sock,            \* "connecting", "open" or "closed"
    closeCause,      \* what closed the socket, "none" while it is not closed
    handshakeTimer,  \* "none", "armed", "cleared" or "fired"
    response,        \* the receive buffer (characters)
    stopped,         \* the handle's flag
    promise,         \* Pending, or what the promise was resolved with
    delivered,       \* the calls of callback, in order
    uncaught,        \* an 'error' event was emitted with no listener
    wire,            \* what was written to the socket
    rx,              \* history: every byte received, in order
    linesSeen,       \* history: complete lines split off so far
    stopCalls,       \* history: calls of stop()
    stopLine,        \* history: the lines split off when stop() was first called
    decodes          \* history: the calls of recursiveParseJSON, in order

transportVars ==
    <<useTls, envelope, hasCallback, sock, closeCause, handshakeTimer,
      response, stopped, promise, delivered, uncaught, wire, rx,
      linesSeen, stopCalls, stopLine, decodes>>

(***************************************************************************)
(* The state of one keyspace operation (GenericKV, Persistent): the        *)
(* objects the caller passes, the class field the operation writes, and    *)
(* what the operation ends with.                                           *)
(***************************************************************************)
VARIABLES
    options,         \* history: the operation and its arguments as passed
    caller,          \* the caller's argument objects, as the call leaves them
    outcome,         \* NoCall, the error thrown, or the query handed to sendData
    command          \* the class's static command field

queryVars == <<options, caller, outcome, command>>

(***************************************************************************)
(* The state of one pass of a value through the codec.                     *)
(***************************************************************************)
VARIABLES
    plain,           \* the value given to the encoder
    encoded,         \* its JSON text, once encoded
    decoded          \* what recursiveParseJSON returns for the text

codecVars == <<plain, encoded, decoded>>

(***************************************************************************)
(* The state of a keyspace class that several operations are called on:    *)
(* the fields connectEngine copies from the Engine, and the calls of       *)
(* sendData made so far, each with the arguments runQuery gave it.         *)
(***************************************************************************)
VARIABLES
    clsPort,         \* the class's port field
    clsUseTls,       \* the class's useTls field
    calls            \* the calls of sendData, in the order they were made; history:
                     \* op, subscribe, written, commandThen (the class's command
                     \* field when the message was written)

classVars == <<clsPort, clsUseTls, calls>>

vars == <<transportVars, queryVars, codecVars, classVars>>

NoCall == [t |-> "none"]
NoValue == [t |-> "none"]

\* no keyspace operation has been called
QueryIdle ==
    /\ options = NoCall
    /\ caller = NoCall
    /\ outcome = NoCall
    /\ command = ""

\* the port the Engine was configured with
ConfiguredPort == 21210

\* a class connected to an Engine without TLS, on which nothing was called
ClassIdle ==
    /\ clsPort = ConfiguredPort
    /\ clsUseTls = FALSE
    /\ calls = <<>>

\* nothing has been given to the codec
CodecIdle ==
    /\ plain = NoValue
    /\ encoded = <<>>
    /\ decoded = NoValue

\* const subscriptionMode = message.includes("subscribe")
subscriptionMode == Includes(Message(envelope), Subscribe)

\* resolve(): the first call settles the promise, later calls do nothing
Resolve(p, v) == IF p = Pending THEN v ELSE p

Init ==
    /\ useTls \in BOOLEAN
    /\ envelope \in Envelopes
    /\ hasCallback = (envelope.command = "subscribe")
    /\ sock = "connecting"
    /\ closeCause = "none"
    /\ handshakeTimer = IF useTls THEN "armed" ELSE "none"
    /\ response = <<>>
    /\ stopped = FALSE
    /\ promise = Pending
    /\ delivered = <<>>
    /\ uncaught = FALSE
    /\ wire = <<>>
    /\ rx = <<>>
    /\ linesSeen = 0
    /\ stopCalls = 0
    /\ stopLine = 0
    /\ decodes = <<>>
    /\ QueryIdle
    /\ CodecIdle
    /\ ClassIdle

\* the history of a socket that closes: the first cause is kept
Close(cause) ==
    /\ sock' = "closed"
    /\ closeCause' = IF sock = "closed" THEN closeCause ELSE cause

(***************************************************************************)
(* 'connect' (TCP) or 'secureConnect' (TLS): finalizeConnect, and with TLS *)
(* the listener that clears the handshake timer.                           *)
(***************************************************************************)
finalizeConnect ==
    /\ sock = "connecting"
    /\ sock' = "open"
    /\ wire' = Message(envelope) \o <<NL>>
    /\ promise' = IF subscriptionMode THEN Resolve(promise, Handle) ELSE promise
    /\ handshakeTimer' = IF useTls THEN "cleared" ELSE handshakeTimer
    /\ UNCHANGED <<useTls, envelope, hasCallback, closeCause, response, stopped,
                   delivered, uncaught, rx, linesSeen, stopCalls, stopLine, decodes,
                   queryVars, codecVars, classVars>>

(***************************************************************************)
(* 'data': onData.  The loop over the complete lines is a fold over a      *)
(* record of what the loop body reads and writes.  stopAt is the callback  *)
(* invocation of this event during which the callback calls stop() (0: it  *)
(* does not; it ranges over the invocations the event makes).              *)
(***************************************************************************)
\* response = ""
RemainderDropped(parts) == <<>>

\* response = parts.pop() || ""
Remainder(parts) == Last(parts)

\* if (!part.trim()) continue
Blank(part) == Trim(part) = <<>>

\* if (callback)
DeliverableWhenStopped(isStopped, cb) == cb

\* if (!stopped && callback)
Deliverable(isStopped, cb) == ~isStopped /\ cb

\* stopped = !stopped
StopFlagToggle(isStopped) == ~isStopped

\* stopped = true
StopFlag(isStopped) == TRUE

\* the handle's stop(): stopped = true; client.destroy()
StopEffect(st) ==
    [st EXCEPT !.stopped = StopFlag(st.stopped),
               !.closeCause = IF st.sock = "closed" THEN @ ELSE "stop",
               !.sock = "closed",
               !.stopCalls = @ + 1,
               !.stopLine = IF st.stopCalls = 0 THEN st.linesSeen ELSE @]

\* client.destroy() after every decoded line
DestroysOnFrameAlways(subscribing) == TRUE

\* if (subscriptionMode) {...} else { client.destroy(); resolve(parsed) }
DestroysOnFrame(subscribing) == ~subscribing

\* history: one call of recursiveParseJSON, on text, while the loop state is st
Attempt(st, text, event) ==
    [line |-> st.linesSeen, text |-> text, at |-> event,
     pending |-> st.promise = Pending]

\* the loop body reaches a line
LineSeen(st) == [st EXCEPT !.linesSeen = @ + 1]

\* history: the loop body calls recursiveParseJSON(part)
LineTried(seen, part) ==
    [seen EXCEPT !.decodes = Append(@, Attempt(seen, part, "data"))]

\* callback(parsed); the callback calls stop() during invocation stopAt
onMessage(tried, parsed, part, stopAt) ==
    IF tried.calls + 1 = stopAt
    THEN StopEffect([tried EXCEPT
                       !.delivered = Append(@, [line |-> tried.linesSeen,
                                                value |-> parsed,
                                                from |-> part]),
                       !.calls = @ + 1])
    ELSE [tried EXCEPT
            !.delivered = Append(@, [line |-> tried.linesSeen,
                                     value |-> parsed,
                                     from |-> part]),
            !.calls = @ + 1]

\* if (subscriptionMode) { if (!stopped && callback) callback(parsed) }
LineHandled(tried, parsed, part, stopAt) ==
    IF subscriptionMode /\ Deliverable(tried.stopped, hasCallback)
    THEN onMessage(tried, parsed, part, stopAt)
    ELSE tried

\* else { client.destroy(); resolve(parsed) }
LineSettled(handled, parsed, part) ==
    IF DestroysOnFrame(subscriptionMode)
    THEN [handled EXCEPT
            !.closeCause = IF handled.sock = "closed" THEN @ ELSE "data",
            !.sock = "closed",
            !.promise = Resolve(@, Decoded(parsed, part))]
    ELSE handled

\* catch { resolve("Failed to parse response") }
LineFailed(seen, part) ==
    [seen EXCEPT !.promise = Resolve(@, FailedToParse),
                 !.decodes = Append(@, Attempt(seen, part, "data"))]

\* try { const parsed = recursiveParseJSON(part); ... }
LineDecoded(tried, parsed, part, stopAt) ==
    LineSettled(LineHandled(tried, parsed, part, stopAt), parsed, part)

ProcessPart(st, part, stopAt) ==
    IF Blank(part) THEN LineSeen(st)
    ELSE IF ParseThrows(part) THEN LineFailed(LineSeen(st), part)
    ELSE LineDecoded(LineTried(LineSeen(st), part),
                     recursiveParseJSON(Str(part)), part, stopAt)

RECURSIVE ProcessParts(_, _, _)
ProcessParts(st, parts, stopAt) ==
    IF parts = <<>> THEN st
    ELSE ProcessParts(ProcessPart(st, Head(parts), stopAt), Tail(parts), stopAt)

\* one 'data' event carries any non-empty run of the bytes still to come
Chunks(room) == SeqsUpTo(Bytes, room)

LoopState ==
    [stopped |-> stopped, promise |-> promise, delivered |-> delivered,
     sock |-> sock, closeCause |-> closeCause, stopCalls |-> stopCalls,
     linesSeen |-> linesSeen, stopLine |-> stopLine, decodes |-> decodes,
     calls |-> 0]

\* the callback invocations of one event when the callback never calls stop()
LoopCalls(parts) == ProcessParts(LoopState, Front(parts), 0).calls

\* what the loop leaves behind
LoopResult(st) ==
    /\ stopped' = st.stopped
    /\ promise' = st.promise
    /\ delivered' = st.delivered
    /\ sock' = st.sock
    /\ closeCause' = st.closeCause
    /\ stopCalls' = st.stopCalls
    /\ linesSeen' = st.linesSeen
    /\ stopLine' = st.stopLine
    /\ decodes' = st.decodes

onData(data) ==
    /\ sock = "open"
    /\ Len(rx) + Len(data) <= MaxStream
    /\ LET parts == Split(response \o ToString(data))
       IN  /\ \E stopAt \in 0..LoopCalls(parts) :
                 LoopResult(ProcessParts(LoopState, Front(parts), stopAt))
           /\ response' = Remainder(parts)
    /\ rx' = rx \o data
    /\ UNCHANGED <<useTls, envelope, hasCallback, handshakeTimer, uncaught, wire,
                   queryVars, codecVars, classVars>>

(***************************************************************************)
(* 'end': onEnd; the runtime then closes the half-closed socket.           *)
(***************************************************************************)
\* try { resolve(recursiveParseJSON(response)) } catch { resolve("Incomplete...") }
OnEndResult(buffer) ==
    IF ParseThrows(buffer) THEN Incomplete
    ELSE Decoded(recursiveParseJSON(Str(buffer)), buffer)

onEnd ==
    /\ sock = "open"
    /\ promise' = IF subscriptionMode THEN promise
                  ELSE Resolve(promise, OnEndResult(response))
    /\ decodes' = IF subscriptionMode THEN decodes
                  ELSE Append(decodes, Attempt(LoopState, response, "end"))
    /\ Close("end")
    /\ UNCHANGED <<useTls, envelope, hasCallback, handshakeTimer, response,
                   stopped, delivered, uncaught, wire, rx, linesSeen, stopCalls, stopLine,
                   queryVars, codecVars, classVars>>

(***************************************************************************)
(* 'error' on the connected socket: onError.                               *)
(***************************************************************************)
OnErrorResult(p) == IF subscriptionMode THEN p ELSE Resolve(p, ConnectionError)

onError ==
    /\ sock = "open"
    /\ promise' = OnErrorResult(promise)
    /\ Close("error")
    /\ UNCHANGED <<useTls, envelope, hasCallback, handshakeTimer, response,
                   stopped, delivered, uncaught, wire, rx, linesSeen, stopCalls, stopLine, decodes,
                   queryVars, codecVars, classVars>>

(***************************************************************************)
(* 'timeout', emitted by the runtime after 120000 ms without activity on   *)
(* the socket (client.setTimeout in finalizeConnect): onTimeout.           *)
(***************************************************************************)
\* onTimeout without its resolve()
OnTimeoutSilent(p) == p

OnTimeoutResult(p) == IF subscriptionMode THEN p ELSE Resolve(p, TimedOut)

onTimeout ==
    /\ sock = "open"
    /\ promise' = OnTimeoutResult(promise)
    /\ Close("timeout")
    /\ UNCHANGED <<useTls, envelope, hasCallback, handshakeTimer, response,
                   stopped, delivered, uncaught, wire, rx, linesSeen, stopCalls, stopLine, decodes,
                   queryVars, codecVars, classVars>>

(***************************************************************************)
(* 'error' while the connection is being established.  finalizeConnect has *)
(* not run, so onError is not attached.  On the TCP socket the event has   *)
(* no listener at all and the emitter throws; on the TLS socket the only   *)
(* listener clears the handshake timer.                                    *)
(***************************************************************************)
ConnectError ==
    /\ sock = "connecting"
    /\ Close("connectError")
    /\ uncaught' = IF useTls THEN uncaught ELSE TRUE
    /\ handshakeTimer' = IF useTls THEN "cleared" ELSE handshakeTimer
    /\ UNCHANGED <<useTls, envelope, hasCallback, response, stopped, promise,
                   delivered, wire, rx, linesSeen, stopCalls, stopLine, decodes,
                   queryVars, codecVars, classVars>>

(***************************************************************************)
(* The handshake timer (10000 ms) fires before 'secureConnect'.            *)
(***************************************************************************)
HandshakeResult(p) == IF subscriptionMode THEN p ELSE Resolve(p, HandshakeTimedOut)

HandshakeTimeout ==
    /\ handshakeTimer = "armed"
    /\ handshakeTimer' = "fired"
    /\ Close("handshake")
    /\ promise' = HandshakeResult(promise)
    /\ UNCHANGED <<useTls, envelope, hasCallback, response, stopped, delivered,
                   uncaught, wire, rx, linesSeen, stopCalls, stopLine, decodes,
                   queryVars, codecVars, classVars>>

(***************************************************************************)
(* The caller calls stop() on the handle it was given.                     *)
(***************************************************************************)
Stop ==
    /\ promise = Handle
    /\ stopCalls < MaxStops
    /\ LET st == StopEffect([stopped |-> stopped, sock |-> sock,
                             closeCause |-> closeCause, stopCalls |-> stopCalls,
                             linesSeen |-> linesSeen, stopLine |-> stopLine])
       IN  /\ stopped' = st.stopped
           /\ stopLine' = st.stopLine
           /\ sock' = st.sock
           /\ closeCause' = st.closeCause
           /\ stopCalls' = st.stopCalls
    /\ UNCHANGED <<useTls, envelope, hasCallback, handshakeTimer, response,
                   promise, delivered, uncaught, wire, rx, linesSeen, decodes,
                   queryVars, codecVars, classVars>>

Data == \E data \in Chunks(MaxStream - Len(rx)) : onData(data)

Next ==
    \/ finalizeConnect
    \/ Data
    \/ onEnd
    \/ onError
    \/ onTimeout
    \/ ConnectError
    \/ HandshakeTimeout
    \/ Stop

Spec == Init /\ [][Next]_vars

(***************************************************************************)
(* The query builder.  A step that can throw gives what it throws (None    *)
(* when it returns) and the objects it was given as it leaves them: the    *)
(* builder works on the caller's objects themselves.                       *)
(***************************************************************************)
None == "none"
InvalidPointer == "Pointer is not valid. Please provide a keyspace and a key."
SchemaMismatch == "Bulk values must have the same schema"
BothPointerOptions ==
    "You select both pointers value and pointers metadata. Choose one"
NoKey == "No key provided"
NoKeys == "No keys provided"
NoValues == "No values provided"
ConflictingOptions == "Multiple conflicting options provided. ..."

SchemaKey == <<"s","c","h","e","m","a">>
PointersKey == <<"p","o","i","n","t","e","r","s">>

\* value.hasOwnProperty(key), value[key], delete value[key]
HasOwn(entries, key) == \E i \in 1..Len(entries) : entries[i].key = key
Get(entries, key) ==
    entries[CHOOSE i \in 1..Len(entries) : entries[i].key = key].val
\* foundSchema is read and the property is left in the value
DeleteNothing(entries, key) == entries

Delete(entries, key) == SelectSeq(entries, LAMBDA e : e.key # key)

\* the loop of processValue over the properties: done are the properties
\* already visited, todo the ones still to visit
RECURSIVE ResolveFields(_, _)
ResolveFields(done, todo) ==
    IF todo = <<>> THEN [entries |-> done, thrown |-> None]
    ELSE LET e == Head(todo)
         IN  IF e.val.t = "Timestamp"
             THEN ResolveFields(Append(done, [e EXCEPT !.val = Str(e.val.timestamp)]),
                                Tail(todo))
             ELSE IF e.val.t = "Pointer"
             THEN IF PointerIsValid(e.val)
                  THEN ResolveFields(Append(done, [e EXCEPT !.val = setupPointer(e.val)]),
                                     Tail(todo))
                  ELSE [entries |-> done \o todo, thrown |-> InvalidPointer]
             ELSE ResolveFields(Append(done, e), Tail(todo))

\* processValue: value is the caller's object as the call leaves it, which
\* is also processedValue
processValue(value) ==
    IF value.t = "obj"
    THEN LET foundSchema == IF HasOwn(value.entries, SchemaKey)
                            THEN Get(value.entries, SchemaKey)
                            ELSE Null
             fields == ResolveFields(<<>>, Delete(value.entries, SchemaKey))
         IN  [value |-> Obj(fields.entries), foundSchema |-> foundSchema,
              thrown |-> fields.thrown]
    ELSE [value |-> value, foundSchema |-> Null, thrown |-> None]

\* uniqueSchemas.add(foundSchema)
SetAdd(members, x) ==
    IF \E i \in 1..Len(members) : members[i] = x THEN members
    ELSE Append(members, x)

\* the forEach of processBulkValues: done are the elements already pushed
RECURSIVE BulkLoop(_, _, _)
BulkLoop(done, todo, uniqueSchemas) ==
    IF todo = <<>>
    THEN [values |-> done, uniqueSchemas |-> uniqueSchemas, thrown |-> None]
    ELSE LET one == processValue(Head(todo))
             left == done \o <<one.value>> \o Tail(todo)
         IN  IF one.thrown # None
             THEN [values |-> left, uniqueSchemas |-> uniqueSchemas,
                   thrown |-> one.thrown]
             ELSE IF one.foundSchema # Null /\ Len(uniqueSchemas) > 1
             THEN [values |-> left, uniqueSchemas |-> uniqueSchemas,
                   thrown |-> SchemaMismatch]
             ELSE BulkLoop(Append(done, one.value), Tail(todo),
                           IF one.foundSchema # Null
                           THEN SetAdd(uniqueSchemas, one.foundSchema)
                           ELSE uniqueSchemas)

processBulkValues(bulkValues) ==
    LET loop == BulkLoop(<<>>, bulkValues, <<>>)
    IN  [values |-> loop.values,
         uniqueSchema |-> IF Len(loop.uniqueSchemas) > 0
                          THEN Head(loop.uniqueSchemas) ELSE Null,
         thrown |-> loop.thrown]

\* entry instanceof Object
IsObject(v) == v.t \in {"obj", "arr", "Pointer", "Timestamp"}

\* !isNaN(Number(key)), for keys of digits, letters and spaces
IsNumber(key) == Trim(key) = <<>> \/ IsDigits(Trim(key))

\* the loop of processBulkKeysValues over the properties of an entry: each
\* Timestamp is replaced, in the entry itself, by its string
Stamped(entry) ==
    IF entry.t = "obj"
    THEN Obj([i \in 1..Len(entry.entries) |->
                IF entry.entries[i].val.t = "Timestamp"
                THEN [entry.entries[i] EXCEPT !.val = Str(@.timestamp)]
                ELSE entry.entries[i]])
    ELSE IF entry.t = "arr"
    THEN Arr([i \in 1..Len(entry.items) |->
                IF entry.items[i].t = "Timestamp"
                THEN Str(entry.items[i].timestamp)
                ELSE entry.items[i]])
    ELSE entry

\* the forEach of processBulkKeysValues: entries are the properties of
\* bulkKeysValues, i the one the loop is at, out bulkKeysValuesProcessed
RECURSIVE KeysValuesLoop(_, _, _)
KeysValuesLoop(entries, i, out) ==
    IF i > Len(entries)
    THEN [map |-> entries, out |-> out, thrown |-> None]
    ELSE LET key == entries[i].key
             entry == entries[i].val
         IN  IF ~IsObject(entry) THEN KeysValuesLoop(entries, i + 1, out)
             ELSE IF entry.t = "Pointer" /\ ~PointerIsValid(entry)
             THEN [map |-> entries, out |-> out, thrown |-> InvalidPointer]
             ELSE LET now == IF entry.t = "Pointer" THEN setupPointer(entry)
                             ELSE Stamped(entry)
                      processedKey == IF IsNumber(key) THEN key
                                      ELSE convertCustomKey(key)
                  IN  KeysValuesLoop([entries EXCEPT ![i].val = now], i + 1,
                                     SetProperty(out, processedKey,
                                                 Str(Stringify(now))))

processBulkKeysValues(bulkKeysValues) ==
    KeysValuesLoop(bulkKeysValues.entries, 1, <<>>)

\* the loop of processSearchCriteria
RECURSIVE CriteriaLoop(_, _)
CriteriaLoop(todo, processedCriteria) ==
    IF todo = <<>> THEN [criteria |-> Obj(processedCriteria), thrown |-> None]
    ELSE LET e == Head(todo)
         IN  IF e.val.t = "Pointer"
             THEN IF ~PointerIsValid(e.val)
                  THEN [criteria |-> Obj(processedCriteria),
                        thrown |-> InvalidPointer]
                  ELSE LET pointers ==
                             IF HasOwn(processedCriteria, PointersKey)
                             THEN Get(processedCriteria, PointersKey).entries
                             ELSE <<>>
                       IN  CriteriaLoop(Tail(todo),
                               SetProperty(processedCriteria, PointersKey,
                                   Obj(SetProperty(pointers, e.key,
                                                   setupPointer(e.val)))))
             ELSE CriteriaLoop(Tail(todo),
                               SetProperty(processedCriteria, e.key, e.val))

processSearchCriteria(searchCriteria) == CriteriaLoop(searchCriteria.entries, <<>>)

\* the defaults of convertToBinaryQuery's options
Defaults ==
    [key |-> Null, value |-> Obj(<<>>), expireSec |-> Num(<<"0">>),
     bulkValues |-> <<>>, bulkKeys |-> <<>>, bulkKeysValues |-> Obj(<<>>),
     searchCriteria |-> Obj(<<>>),
     limitOutput |-> [start |-> Num(<<"0">>), stop |-> Num(<<"0">>)],
     withPointers |-> FALSE, schema |-> Null, keyIncluded |-> FALSE,
     pointersMetadata |-> FALSE, volumes |-> <<>>, latestVolume |-> FALSE]

\* convertToBinaryQuery(cls, options), cls.command being cmd: what it throws,
\* the option objects as it leaves them, and the object it serializes (the
\* fields the options determine)
convertToBinaryQuery(cmd, o) ==
    LET single == processValue(o.value)
        bulk == processBulkValues(o.bulkValues)
        keysValues == processBulkKeysValues(o.bulkKeysValues)
        criteria == processSearchCriteria(o.searchCriteria)
        o1 == [o EXCEPT !.value = single.value]
        o2 == [o1 EXCEPT !.bulkValues = bulk.values]
        o3 == [o2 EXCEPT !.bulkKeysValues = Obj(keysValues.map)]
    IN  IF single.thrown # None
        THEN [thrown |-> single.thrown, after |-> o1, query |-> NoValue]
        ELSE IF bulk.thrown # None
        THEN [thrown |-> bulk.thrown, after |-> o2, query |-> NoValue]
        ELSE IF keysValues.thrown # None
        THEN [thrown |-> keysValues.thrown, after |-> o3, query |-> NoValue]
        ELSE IF criteria.thrown # None
        THEN [thrown |-> criteria.thrown, after |-> o3, query |-> NoValue]
        ELSE [thrown |-> None,
              after |-> o3,
              query |->
                [limit_output |-> o.limitOutput,
                 key |-> o.key,
                 value |-> Stringify(single.value),
                 command |-> cmd,
                 expire |-> o.expireSec,
                 bulk_values |-> [i \in 1..Len(bulk.values) |->
                                    Stringify(bulk.values[i])],
                 bulk_keys |-> o.bulkKeys,
                 bulk_keys_values |-> Obj(keysValues.out),
                 search_criteria |-> Stringify(criteria.criteria),
                 with_pointers |-> o.withPointers,
                 schema |-> IF single.foundSchema # Null THEN single.foundSchema
                            ELSE IF bulk.uniqueSchema # Null THEN bulk.uniqueSchema
                            ELSE o.schema,
                 key_included |-> o.keyIncluded,
                 pointers_metadata |-> o.pointersMetadata,
                 volumes |-> o.volumes,
                 latest_volume |-> o.latestVolume]]

(***************************************************************************)
(* The keyspace operations.  An operation runs without interruption up to  *)
(* its call of runQuery, which calls sendData, which creates the socket    *)
(* and starts to connect.                                                  *)
(***************************************************************************)
Thrown(message) == [t |-> "thrown", message |-> message]
Sent(query) == [t |-> "sent", query |-> query]

\* what an operation ends with once convertToBinaryQuery has run
Built(built) ==
    IF built.thrown # None THEN Thrown(built.thrown) ELSE Sent(built.query)

\* if (x), for a string or null
Truthy(x) == x # Null /\ x # Str(<<>>)

\* the socket and the closure of sendData, which an operation does not touch
\* before it calls runQuery
closureVars ==
    <<useTls, envelope, hasCallback, closeCause, handshakeTimer, response,
      stopped, promise, delivered, uncaught, wire, rx, linesSeen, stopCalls,
      stopLine, decodes>>

\* sendData has not been called: no socket exists
NoSocket ==
    /\ useTls = FALSE
    /\ envelope = NoValue
    /\ hasCallback = FALSE
    /\ sock = "none"
    /\ closeCause = "none"
    /\ handshakeTimer = "none"
    /\ response = <<>>
    /\ stopped = FALSE
    /\ promise = Pending
    /\ delivered = <<>>
    /\ uncaught = FALSE
    /\ wire = <<>>
    /\ rx = <<>>
    /\ linesSeen = 0
    /\ stopCalls = 0
    /\ stopLine = 0
    /\ decodes = <<>>

\* no operation has been called
InitQuery == QueryIdle /\ CodecIdle /\ ClassIdle /\ NoSocket

\* the operation op, called with the arguments passed, leaves them as left,
\* leaves the class's command as cmd, and ends with result
Returns(op, passed, left, cmd, result) ==
    /\ outcome = NoCall
    /\ options' = [op |-> op, args |-> passed]
    /\ caller' = [op |-> op, args |-> left]
    /\ command' = cmd
    /\ outcome' = result
    /\ sock' = IF result.t = "sent" THEN "connecting" ELSE sock
    /\ UNCHANGED <<closureVars, codecVars, classVars>>

\* pointersMetadata && withPointers, not checked
PointerFlagsUnchecked(withPointers, pointersMetadata) == FALSE

\* if (pointersMetadata && withPointers) throw
PointerFlagsConflict(withPointers, pointersMetadata) ==
    pointersMetadata /\ withPointers

\* GenericKV.getValue
getValue(key, customKey, withPointers, keyIncluded, pointersMetadata) ==
    LET passed == [key |-> key, customKey |-> customKey,
                   withPointers |-> withPointers, keyIncluded |-> keyIncluded,
                   pointersMetadata |-> pointersMetadata]
        effectiveKey == IF Truthy(customKey)
                        THEN Str(convertCustomKey(customKey.s)) ELSE key
        built == convertToBinaryQuery("get_value",
                     [Defaults EXCEPT !.key = effectiveKey,
                                      !.withPointers = withPointers,
                                      !.keyIncluded = keyIncluded,
                                      !.pointersMetadata = pointersMetadata])
    IN  IF PointerFlagsConflict(withPointers, pointersMetadata)
        THEN Returns("getValue", passed, passed, command, Thrown(BothPointerOptions))
        ELSE IF ~Truthy(effectiveKey)
        THEN Returns("getValue", passed, passed, command, Thrown(NoKey))
        ELSE Returns("getValue", passed, passed, "get_value", Built(built))

\* [bulkKeys.length > 0, volumes.length > 0, latestVolume].filter(Boolean).length
SelectedOptions(bulkKeys, volumes, latestVolume) ==
    (IF Len(bulkKeys) > 0 THEN 1 ELSE 0)
        + (IF Len(volumes) > 0 THEN 1 ELSE 0)
        + (IF latestVolume THEN 1 ELSE 0)

\* if (selectedOptions > 1) throw
SelectionConflictOnly(selectedOptions) == selectedOptions > 1

\* if (selectedOptions !== 1) throw
SelectionInvalid(selectedOptions) == selectedOptions # 1

\* GenericKV.getBulk (limitOutput and keyIncluded left at their defaults)
getBulk(bulkKeys, bulkCustomKeys, withPointers, pointersMetadata, volumes, latestVolume) ==
    LET passed == [bulkKeys |-> bulkKeys, bulkCustomKeys |-> bulkCustomKeys,
                   withPointers |-> withPointers,
                   pointersMetadata |-> pointersMetadata,
                   volumes |-> volumes, latestVolume |-> latestVolume]
        allKeys == bulkKeys \o [i \in 1..Len(bulkCustomKeys) |->
                                  Str(convertCustomKey(bulkCustomKeys[i].s))]
        built == convertToBinaryQuery("get_bulk",
                     [Defaults EXCEPT !.bulkKeys = allKeys,
                                      !.withPointers = withPointers,
                                      !.pointersMetadata = pointersMetadata,
                                      !.volumes = volumes,
                                      !.latestVolume = latestVolume])
    IN  IF PointerFlagsConflict(withPointers, pointersMetadata)
        THEN Returns("getBulk", passed, passed, command, Thrown(BothPointerOptions))
        ELSE IF SelectionInvalid(SelectedOptions(allKeys, volumes, latestVolume))
        THEN Returns("getBulk", passed, passed, command, Thrown(ConflictingOptions))
        ELSE Returns("getBulk", passed, passed, "get_bulk", Built(built))

\* convertCustomKeysValues
convertCustomKeysValues(keysValues) ==
    FromEntries([i \in 1..Len(keysValues.entries) |->
                   [key |-> convertCustomKey(keysValues.entries[i].key),
                    val |-> keysValues.entries[i].val]])

\* an entry object of one of the caller's maps, after processBulkKeysValues
\* has worked on the merged copy: the copy holds the same object under
\* mergedKey unless a later entry took that key, and what the loop replaces
\* inside the object shows in the caller's map too
EntryLeft(e, mergedKey, isHeld, mergedAfter) ==
    IF isHeld /\ e.val.t \in {"obj", "arr"} THEN Get(mergedAfter.entries, mergedKey)
    ELSE e.val

\* GenericKV.updateBulk
updateBulk(bulkKeysValues, bulkCustomKeysValues) ==
    LET passed == [bulkKeysValues |-> bulkKeysValues,
                   bulkCustomKeysValues |-> bulkCustomKeysValues]
        custom == bulkCustomKeysValues.entries
        hashed == convertCustomKeysValues(bulkCustomKeysValues)
        merges == Len(custom) > 0
        merged == IF merges
                  THEN Obj(AssignAll(bulkKeysValues.entries, hashed.entries))
                  ELSE bulkKeysValues
        built == convertToBinaryQuery("update_bulk",
                     [Defaults EXCEPT !.bulkKeysValues = merged])
        after == built.after.bulkKeysValues
        left ==
            IF ~merges
            THEN [bulkKeysValues |-> after,
                  bulkCustomKeysValues |-> bulkCustomKeysValues]
            ELSE [bulkKeysValues |->
                    Obj([i \in 1..Len(bulkKeysValues.entries) |->
                           LET e == bulkKeysValues.entries[i]
                           IN  [e EXCEPT !.val =
                                  EntryLeft(e, e.key,
                                            ~HasOwn(hashed.entries, e.key),
                                            after)]]),
                  bulkCustomKeysValues |->
                    Obj([i \in 1..Len(custom) |->
                           LET e == custom[i]
                               last == \A j \in (i + 1)..Len(custom) :
                                          convertCustomKey(custom[j].key)
                                              # convertCustomKey(e.key)
                           IN  [e EXCEPT !.val =
                                  EntryLeft(e, convertCustomKey(e.key), last,
                                            after)]])]
    IN  IF Len(merged.entries) = 0
        THEN Returns("updateBulk", passed, passed, command, Thrown(NoKeys))
        ELSE Returns("updateBulk", passed, left, "update_bulk", Built(built))

\* GenericKV.lookupKeysWhere (limitOutput left at its default)
lookupKeysWhere(searchCriteria, schema) ==
    LET passed == [searchCriteria |-> searchCriteria, schema |-> schema]
        built == convertToBinaryQuery("lookup_keys",
                     [Defaults EXCEPT !.searchCriteria = searchCriteria,
                                      !.schema = schema])
    IN  Returns("lookupKeysWhere", passed, passed, "lookup_keys", Built(built))

\* GenericKV.lookupValuesWhere (limitOutput and keyIncluded left at their
\* defaults)
lookupValuesWhere(searchCriteria, withPointers, schema, pointersMetadata) ==
    LET passed == [searchCriteria |-> searchCriteria,
                   withPointers |-> withPointers, schema |-> schema,
                   pointersMetadata |-> pointersMetadata]
        built == convertToBinaryQuery("lookup_values",
                     [Defaults EXCEPT !.searchCriteria = searchCriteria,
                                      !.withPointers = withPointers,
                                      !.schema = schema,
                                      !.pointersMetadata = pointersMetadata])
    IN  IF PointerFlagsConflict(withPointers, pointersMetadata)
        THEN Returns("lookupValuesWhere", passed, passed, command,
                     Thrown(BothPointerOptions))
        ELSE Returns("lookupValuesWhere", passed, passed, "lookup_values",
                     Built(built))

\* Persistent.insertValue
insertValue(value) ==
    LET built == convertToBinaryQuery("insert_value",
                     [Defaults EXCEPT !.value = value])
    IN  Returns("insertValue", [value |-> value],
                [value |-> built.after.value], "insert_value", Built(built))

\* Persistent.insertBulk
insertBulk(bulk) ==
    LET built == convertToBinaryQuery("insert_bulk",
                     [Defaults EXCEPT !.bulkValues = bulk])
    IN  IF Len(bulk) = 0
        THEN Returns("insertBulk", [bulk |-> bulk], [bulk |-> bulk], command,
                     Thrown(NoValues))
        ELSE Returns("insertBulk", [bulk |-> bulk],
                     [bulk |-> built.after.bulkValues], "insert_bulk",
                     Built(built))

(***************************************************************************)
(* The arguments the operations are called with.                           *)
(***************************************************************************)
MaxBulk == 3

Tags == {Str(<<"A">>), Str(<<"B">>)}
Text == Str(<<"x">>)
Stamp == Timestamp(<<"t", "0">>)
KeyspaceName == <<"k", "s">>
Pointers ==
    {Pointer(KeyspaceName, key, customKey) :
        key \in {<<>>, <<"1">>}, customKey \in {<<>>, <<"a">>}}
Keyless == Pointer(KeyspaceName, <<>>, <<>>)

\* an object with the properties given and, when tag is not null, a schema
Tagged(tag, properties) ==
    Obj((IF tag = Null THEN <<>> ELSE <<[key |-> SchemaKey, val |-> tag]>>)
            \o properties)

Values ==
    {Tagged(tag, <<[key |-> <<"a">>, val |-> a], [key |-> <<"b">>, val |-> b]>>) :
        tag \in Tags \cup {Null},
        a \in {Text, Stamp} \cup Pointers,
        b \in {Text, Stamp, Keyless}}

BulkElements ==
    {Tagged(tag, <<[key |-> <<"a">>, val |-> a]>>) :
        tag \in Tags \cup {Null}, a \in {Text, Stamp, Keyless}}

Bulks == {<<>>} \cup SeqsUpTo(BulkElements, MaxBulk)

EntryValues ==
    {Obj(<<[key |-> <<"a">>, val |-> a]>>) :
        a \in {Text, Stamp, Keyless, Pointer(KeyspaceName, <<"1">>, <<>>)}}
      \cup {Keyless, Pointer(KeyspaceName, <<"1">>, <<>>), Num(<<"5">>)}

\* the objects with some of the properties named, in the order given
MapsOver(names, vals) ==
    {<<>>} \cup UNION {
        {[i \in 1..n |-> [key |-> names[i], val |-> f[i]]] : f \in [1..n -> vals]} :
        n \in 1..Len(names)}

KeysValues == {Obj(entries) : entries \in MapsOver(<<<<"1">>, <<"k">>>>, EntryValues)}
CustomKeysValues == {Obj(entries) : entries \in MapsOver(<<<<"a">>>>, EntryValues)}

Criteria ==
    {Obj(entries) :
        entries \in MapsOver(<<<<"a">>, <<"b">>>>,
                             {Text, Keyless, Pointer(KeyspaceName, <<"1">>, <<>>)})}

KeyArgs == {Str(<<>>), Str(<<"1">>)}
CustomKeyArgs == {Null, Str(<<"a">>)}
KeyLists == {<<>>, <<Str(<<"1">>)>>}
CustomKeyLists == {<<>>, <<Str(<<"a">>)>>}
VolumeLists == {<<>>, <<Str(<<"v">>)>>}
SchemaArgs == {Null, Str(<<"A">>)}

GetValue ==
    \E key \in KeyArgs, customKey \in CustomKeyArgs,
       withPointers \in BOOLEAN, keyIncluded \in BOOLEAN,
       pointersMetadata \in BOOLEAN :
        getValue(key, customKey, withPointers, keyIncluded, pointersMetadata)

GetBulk ==
    \E bulkKeys \in KeyLists, bulkCustomKeys \in CustomKeyLists,
       withPointers \in BOOLEAN, pointersMetadata \in BOOLEAN,
       volumes \in VolumeLists, latestVolume \in BOOLEAN :
        getBulk(bulkKeys, bulkCustomKeys, withPointers, pointersMetadata,
                volumes, latestVolume)

UpdateBulk ==
    \E bulkKeysValues \in KeysValues, bulkCustomKeysValues \in CustomKeysValues :
        updateBulk(bulkKeysValues, bulkCustomKeysValues)

LookupKeysWhere ==
    \E searchCriteria \in Criteria, schema \in SchemaArgs :
        lookupKeysWhere(searchCriteria, schema)

LookupValuesWhere ==
    \E searchCriteria \in Criteria, schema \in SchemaArgs,
       withPointers \in BOOLEAN, pointersMetadata \in BOOLEAN :
        lookupValuesWhere(searchCriteria, withPointers, schema, pointersMetadata)

InsertValue == \E value \in Values : insertValue(value)

InsertBulk == \E bulk \in Bulks : insertBulk(bulk)

NextQuery ==
    \/ GetValue
    \/ GetBulk
    \/ UpdateBulk
    \/ LookupKeysWhere
    \/ LookupValuesWhere
    \/ InsertValue
    \/ InsertBulk

SpecQuery == InitQuery /\ [][NextQuery]_vars

(***************************************************************************)
(* The codec: a value is serialized with JSON.stringify, as the query      *)
(* builder does, or a text comes from the engine; the text is decoded with *)
(* recursiveParseJSON, as sendData does.                                   *)
(***************************************************************************)
MaxItems == 2

Leaves ==
    {Null, Bool(TRUE), Num(<<"5">>), Str(<<"a">>), Str(<<"7">>), Str(U64Max),
     Str(<<"t", "r", "u", "e">>), Str(<<QUOTE>>)}

Names == {<<"a">>, <<"1">>, <<"1", "a">>}

Arrays == {Arr(<<>>)} \cup {Arr(items) : items \in SeqsUpTo(Leaves, MaxItems)}

Objects ==
    {FromEntries(<<[key |-> k, val |-> v]>>) :
        k \in Names, v \in Leaves \cup {Arr(<<leaf>>) : leaf \in Leaves}}
      \cup {FromEntries(<<[key |-> k1, val |-> v1], [key |-> k2, val |-> v2]>>) :
              k1 \in Names, k2 \in Names \ {<<"a">>},
              v1 \in {Str(<<"7">>), Num(<<"5">>)},
              v2 \in {Str(<<"a">>), Str(U64Max)}}

Supported ==
    Leaves \cup Arrays \cup Objects
      \cup {Arr(<<FromEntries(<<[key |-> <<"a">>, val |-> leaf]>>)>>) : leaf \in Leaves}

\* texts in the engine's dialect, with integers beyond 2^53 written as numbers
EngineTexts ==
    {U64Max, U64Over, <<"[">> \o U64Over \o <<"]">>,
     <<"[">> \o U64Max \o <<",", QUOTE, "7", QUOTE, "]">>,
     <<"{", QUOTE, "a", QUOTE, ":", SPACE>> \o U64Max \o <<"}">>}

InitCodec ==
    /\ QueryIdle
    /\ ClassIdle
    /\ NoSocket
    /\ decoded = NoValue
    /\ \/ plain \in Supported /\ encoded = <<>>
       \/ plain = NoValue /\ encoded \in EngineTexts

\* JSON.stringify(value)
Encode ==
    /\ plain # NoValue
    /\ encoded = <<>>
    /\ encoded' = Stringify(plain)
    /\ UNCHANGED <<plain, decoded, transportVars, queryVars, classVars>>

\* recursiveParseJSON(part)
Decode ==
    /\ encoded # <<>>
    /\ decoded = NoValue
    /\ decoded' = recursiveParseJSON(Str(encoded))
    /\ UNCHANGED <<plain, encoded, transportVars, queryVars, classVars>>

NextCodec ==
    \/ Encode
    \/ Decode

SpecCodec == InitCodec /\ [][NextCodec]_vars

(***************************************************************************)
(* Operations on one keyspace class, several of them in flight.  An        *)
(* operation runs without interruption from its first statement to the     *)
(* call of sendData inside runQuery (there is no await before it), and     *)
(* sendData creates the socket and starts to connect; the connections      *)
(* complete later, in any order, and finalizeConnect then writes the       *)
(* message its call of sendData was given.                                 *)
(***************************************************************************)
MaxCalls == 3

\* the useTls parameter of sendData when the caller passes none
DefaultUseTls == FALSE

\* subscribe && (cls.port = cls.port + 1)
PortAfter(port, subscribe) == IF subscribe THEN port + 1 ELSE port

\* runQuery(cls, query, callback, subscribe), called by op:
\* sendData(cls.host, cls.port, query, callback)
runQuery(op, query, subscribe) ==
    /\ Len(calls) < MaxCalls
    /\ clsPort' = PortAfter(clsPort, subscribe)
    /\ calls' = Append(calls, [op |-> op,
                               subscribe |-> subscribe,
                               port |-> clsPort',
                               message |-> query,
                               useTls |-> DefaultUseTls,
                               written |-> NoValue,
                               commandThen |-> ""])
    /\ UNCHANGED clsUseTls

\* this.command = "..." of the operations called
OperationCommand(op) ==
    CASE op = "getValue" -> "get_value"
      [] op = "insertValue" -> "insert_value"

\* the options the operations called give convertToBinaryQuery:
\* getValue({ key: '1' }) and insertValue({ value: { a: 'x' } })
OperationOptions(op) ==
    CASE op = "getValue" -> [Defaults EXCEPT !.key = Str(<<"1">>)]
      [] op = "insertValue" ->
            [Defaults EXCEPT !.value = Obj(<<[key |-> <<"a">>, val |-> Text]>>)]

\* an operation: this.command = ...; query = convertToBinaryQuery(this, ...);
\* runQuery(this, query)
Operate(op) ==
    /\ command' = OperationCommand(op)
    /\ runQuery(op, convertToBinaryQuery(command', OperationOptions(op)).query,
                FALSE)
    /\ UNCHANGED <<options, caller, outcome, transportVars, codecVars>>

\* the envelopes of subscription commands
SubscriptionQueries == {convertToBinaryQuery("subscribe", Defaults).query}

\* runQuery called with a callback and subscribe = true
RunSubscription(query) ==
    /\ runQuery("runQuery", query, TRUE)
    /\ UNCHANGED <<queryVars, transportVars, codecVars>>

\* the envelope as the class's command field would make it when it is
\* written
MessageOfClass(message, current) == [message EXCEPT !.command = current]

\* client.write(message + "\n"): the text sendData was called with
MessageWritten(message, current) == message

\* the connection of call i is established: finalizeConnect
Connected(i) ==
    /\ calls[i].written = NoValue
    /\ calls' = [calls EXCEPT
                   ![i].written = MessageWritten(calls[i].message, command),
                   ![i].commandThen = command]
    /\ UNCHANGED <<clsPort, clsUseTls, queryVars, transportVars, codecVars>>

\* a class connected to an Engine configured with or without TLS
InitClass ==
    /\ QueryIdle
    /\ CodecIdle
    /\ NoSocket
    /\ clsPort = ConfiguredPort
    /\ clsUseTls \in BOOLEAN
    /\ calls = <<>>

Operation == \E op \in {"getValue", "insertValue"} : Operate(op)

Subscription == \E query \in SubscriptionQueries : RunSubscription(query)

Connection == \E i \in 1..Len(calls) : Connected(i)

NextClass ==
    \/ Operation
    \/ Subscription
    \/ Connection

SpecClass == InitClass /\ [][NextClass]_vars

(***************************************************************************)
(* What the received stream holds, computed from the bytes in rx alone.    *)
(***************************************************************************)
\* the complete (newline-terminated) lines of a byte stream
CompleteLines(b) == Front(Split(b))

\* the positions, among the complete lines, of the lines that are not blank
FrameOrdinals(b) ==
    LET lines == CompleteLines(b)
    IN  SelectSeq([i \in 1..Len(lines) |-> i], LAMBDA i : Trim(lines[i]) # <<>>)

\* the text of the first complete non-blank line
FirstFrame(b) == ToString(CompleteLines(b)[Head(FrameOrdinals(b))])

DeliveredOrdinals == [i \in 1..Len(delivered) |-> delivered[i].line]

CommandSubscribes == Includes(Chars(envelope.command), Subscribe)

(***************************************************************************)
(* C1: in request-response mode, however the server's bytes are split into *)
(* chunks, once a complete non-blank line has been received the promise is *)
(* resolved with the decoded value of the first such line and the socket   *)
(* is destroyed.  (That a promise is settled once is Resolve.)             *)
(***************************************************************************)
C1Claim ==
    (~subscriptionMode /\ FrameOrdinals(rx) # <<>>) =>
        /\ promise.t = "value"
        /\ promise.v = recursiveParseJSON(Str(FirstFrame(rx)))
        /\ sock = "closed"

(***************************************************************************)
(* C2: in subscription mode the callback has been invoked exactly once for *)
(* each complete non-blank line received before stop(), in arrival order,  *)
(* and for no line after the one during which stop() was called.           *)
(***************************************************************************)
C2Theorem ==
    (subscriptionMode /\ hasCallback) =>
        DeliveredOrdinals =
            SelectSeq(FrameOrdinals(rx), LAMBDA n : ~stopped \/ n <= stopLine)

\* two frames were delivered, in order, and then the caller stopped
C2Witness ==
    /\ subscriptionMode
    /\ stopped
    /\ Len(delivered) = 2
    /\ delivered[1].line < delivered[2].line
    /\ stopLine = delivered[2].line

(***************************************************************************)
(* C3: a request-response call whose socket is closed, whatever closed it, *)
(* has resolved (nothing can resolve it later: every handler and timer is  *)
(* gone with the socket).                                                  *)
(***************************************************************************)
C3Claim == (~subscriptionMode /\ sock = "closed") => promise # Pending

(***************************************************************************)
(* C4: any socket error of a request-response call, also one raised while  *)
(* connecting, resolves the 'Connection error' result, and no exception    *)
(* escapes.                                                                *)
(***************************************************************************)
C4Claim ==
    (~subscriptionMode /\ closeCause \in {"error", "connectError"}) =>
        promise = ConnectionError /\ ~uncaught

(***************************************************************************)
(* C5: when the idle timeout fires on a request-response connection, no    *)
(* complete non-blank line has arrived, the call is resolved with          *)
(* 'Operation timed out' and the socket is destroyed.                      *)
(***************************************************************************)
C5Theorem ==
    (~subscriptionMode /\ closeCause = "timeout") =>
        /\ FrameOrdinals(rx) = <<>>
        /\ promise = TimedOut
        /\ sock = "closed"

\* the timeout fired on a connection that had received part of a line
C5Witness ==
    /\ ~subscriptionMode
    /\ closeCause = "timeout"
    /\ response # <<>>
    /\ promise = TimedOut

(***************************************************************************)
(* C6: a TLS handshake that misses its deadline destroys the socket and    *)
(* resolves the handshake-timeout result, in both modes.                   *)
(***************************************************************************)
C6Claim ==
    closeCause = "handshake" => (sock = "closed" /\ promise = HandshakeTimedOut)

(***************************************************************************)
(* C7: when the stream ends before a request-response call has resolved,   *)
(* the call resolves the decoded remainder, or 'Incomplete or invalid      *)
(* response' when the remainder is empty, incomplete or not valid JSON.    *)
(***************************************************************************)
C7Claim ==
    (~subscriptionMode /\ closeCause = "end") =>
        promise = IF JSONbigParse(response).t = "error" THEN Incomplete
                  ELSE Decoded(recursiveParseJSON(Str(response)), response)

(***************************************************************************)
(* C8: no value resolved or passed to the callback is the raw text of a    *)
(* line, or of a partial line, that did not parse as JSON.                 *)
(***************************************************************************)
RawFragment(v, text) == v = Str(text) /\ JSONbigParse(text).t = "error"

C8Claim ==
    /\ promise.t = "value" => ~RawFragment(promise.v, promise.from)
    /\ \A i \in 1..Len(delivered) :
          ~RawFragment(delivered[i].value, delivered[i].from)

(***************************************************************************)
(* C9: a call resolves a subscription handle if and only if the command    *)
(* name of its envelope contains 'subscribe'.                              *)
(***************************************************************************)
C9Claim == promise # Pending => (promise = Handle <=> CommandSubscribes)

(***************************************************************************)
(* C10: every call of stop() leaves the handle inert and the socket        *)
(* destroyed and raises nothing; a call made when the handle was already   *)
(* stopped, or the socket already closed, changes nothing a caller or the  *)
(* peer can observe.                                                       *)
(***************************************************************************)
C10Theorem ==
    [][stopCalls' = stopCalls + 1 =>
         /\ stopped'
         /\ sock' = "closed"
         /\ uncaught' = uncaught
         /\ (stopped \/ sock = "closed") =>
               /\ <<sock, promise, delivered, wire, response>>' =
                  <<sock, promise, delivered, wire, response>>
               /\ stopped => closeCause' = closeCause]_vars

\* stop() was called twice on a subscription that had delivered a frame
C10Witness ==
    /\ stopCalls = 2
    /\ stopped
    /\ closeCause = "stop"
    /\ delivered # <<>>

(***************************************************************************)
(* C11: in subscription mode a complete line that does not decode is       *)
(* delivered to the callback as an error-shaped message (and not as        *)
(* anything else); the stream goes on.                                     *)
(***************************************************************************)
C11Claim ==
    \A i \in 1..Len(delivered) :
        JSONbigParse(delivered[i].from) = ParseError =>
            delivered[i].value.t = "indicator"

(***************************************************************************)
(* The text of a line, up to how its bytes were cut into chunks: a         *)
(* character decoded from a whole UTF-8 sequence and the replacement       *)
(* characters decoded from its separated bytes stand for the same bytes.   *)
(***************************************************************************)
RECURSIVE ByteWise(_)
ByteWise(text) ==
    IF text = <<>> THEN <<>>
    ELSE IF Head(text) = "U+E9"
         THEN <<"U+FFFD", "U+FFFD">> \o ByteWise(Tail(text))
    ELSE IF Head(text) \in {"C3", "A9"}
         THEN <<"U+FFFD">> \o ByteWise(Tail(text))
    ELSE <<Head(text)>> \o ByteWise(Tail(text))

(***************************************************************************)
(* C19: every call of recursiveParseJSON made on a 'data' event is on the  *)
(* text of one complete line of the received stream, the line the loop is  *)
(* at; the only other call is the one 'end' makes on the buffered          *)
(* remainder, in request-response mode, while the promise is pending.      *)
(***************************************************************************)
C19Theorem ==
    \A i \in 1..Len(decodes) :
        LET d == decodes[i]
        IN  IF d.at = "data"
            THEN /\ d.line \in 1..Len(CompleteLines(rx))
                 /\ ByteWise(d.text) = ByteWise(CompleteLines(rx)[d.line])
            ELSE /\ ~subscriptionMode
                 /\ d.pending
                 /\ i = Len(decodes)
                 /\ ByteWise(d.text) = ByteWise(Last(Split(rx)))

\* a subscription decoded its second line, which is two characters long
C19Witness ==
    /\ subscriptionMode
    /\ \E i \in 1..Len(decodes) :
          /\ decodes[i].at = "data"
          /\ decodes[i].line = 2
          /\ Len(decodes[i].text) = 2

(***************************************************************************)
(* C20 as stated: a subscription whose handle was given out has its socket *)
(* destroyed only by stop() or by a socket error or end.                   *)
(***************************************************************************)
C20Claim ==
    (subscriptionMode /\ promise = Handle /\ sock = "closed") =>
        closeCause \in {"stop", "error", "end"}

(***************************************************************************)
(* C20: a subscription whose handle was given out has its socket destroyed *)
(* only by stop(), by a socket error or end, or by the 120000 ms           *)
(* inactivity timeout of the socket; a frame that arrives never destroys   *)
(* it.                                                                     *)
(***************************************************************************)
C20Theorem ==
    (subscriptionMode /\ promise = Handle /\ sock = "closed") =>
        closeCause \in {"stop", "error", "end", "timeout"}

\* a subscription that had delivered a frame was destroyed by the timeout
C20Witness ==
    /\ subscriptionMode
    /\ promise = Handle
    /\ delivered # <<>>
    /\ closeCause = "timeout"

(***************************************************************************)
(* What an operation was called with, read from the arguments alone.       *)
(***************************************************************************)
Called(op) == options # NoCall /\ options.op = op

\* the operation was called with withPointers and pointersMetadata both true
BothFlagsPassed ==
    /\ options # NoCall
    /\ options.op \in {"getValue", "getBulk", "lookupValuesWhere"}
    /\ options.args.withPointers
    /\ options.args.pointersMetadata

\* an object one of whose properties is a Pointer without a key
HasKeylessField(v) ==
    /\ v.t = "obj"
    /\ \E i \in 1..Len(v.entries) :
          v.entries[i].val.t = "Pointer" /\ v.entries[i].val.key = Undefined

\* the schema tag an object carries, Null when it carries none
TagOf(v) == IF HasOwn(v.entries, SchemaKey) THEN Get(v.entries, SchemaKey) ELSE Null

\* nothing was handed to sendData: no socket exists, nothing was written
NothingSent == outcome.t = "thrown" /\ sock = "none" /\ wire = <<>>

(***************************************************************************)
(* C12: an operation called with withPointers and pointersMetadata both    *)
(* true throws and no socket is created; no query that is handed to        *)
(* sendData has with_pointers and pointers_metadata both true.             *)
(***************************************************************************)
C12Theorem ==
    /\ BothFlagsPassed => NothingSent /\ outcome.message = BothPointerOptions
    /\ outcome.t = "sent" =>
          ~(outcome.query.with_pointers /\ outcome.query.pointers_metadata)

\* lookupValuesWhere was called with both flags and threw
C12Witness ==
    /\ Called("lookupValuesWhere")
    /\ BothFlagsPassed
    /\ outcome = Thrown(BothPointerOptions)

(***************************************************************************)
(* C13: insertBulk with a list in which two elements carry different       *)
(* schema tags throws and nothing is sent.                                 *)
(***************************************************************************)
C13Claim ==
    (/\ Called("insertBulk")
     /\ \E i, j \in 1..Len(options.args.bulk) :
           /\ TagOf(options.args.bulk[i]) # Null
           /\ TagOf(options.args.bulk[j]) # Null
           /\ TagOf(options.args.bulk[i]) # TagOf(options.args.bulk[j]))
        => NothingSent

(***************************************************************************)
(* C14: an operation given a Pointer without a key as a property of a      *)
(* value (a single value, a bulk value, the value of a bulk key/value      *)
(* entry) or of the search criteria throws and nothing is sent.            *)
(***************************************************************************)
C14Claim ==
    (\/ Called("insertValue") /\ HasKeylessField(options.args.value)
     \/ /\ Called("insertBulk")
        /\ \E i \in 1..Len(options.args.bulk) :
              HasKeylessField(options.args.bulk[i])
     \/ /\ options # NoCall
        /\ options.op \in {"lookupKeysWhere", "lookupValuesWhere"}
        /\ HasKeylessField(options.args.searchCriteria)
     \/ /\ Called("updateBulk")
        /\ \E m \in {options.args.bulkKeysValues,
                      options.args.bulkCustomKeysValues} :
              \E i \in 1..Len(m.entries) : HasKeylessField(m.entries[i].val))
        => NothingSent

(***************************************************************************)
(* C15: getBulk hands a query to sendData exactly when one, and only one,  *)
(* of the key list (explicit and custom keys together), the volumes and    *)
(* latestVolume is selected (and the pointer flags are not both set);      *)
(* otherwise it throws and nothing is sent.                                *)
(***************************************************************************)
SelectedByCaller ==
    Cardinality(
        {x \in {"keys", "volumes", "latest"} :
            \/ x = "keys" /\ Len(options.args.bulkKeys)
                                + Len(options.args.bulkCustomKeys) > 0
            \/ x = "volumes" /\ Len(options.args.volumes) > 0
            \/ x = "latest" /\ options.args.latestVolume})

C15Theorem ==
    Called("getBulk") =>
        /\ outcome.t = "sent" <=> (SelectedByCaller = 1 /\ ~BothFlagsPassed)
        /\ outcome.t # "sent" => NothingSent

\* getBulk was called with custom keys only and the query was sent
C15Witness ==
    /\ Called("getBulk")
    /\ options.args.bulkKeys = <<>>
    /\ options.args.bulkCustomKeys # <<>>
    /\ outcome.t = "sent"
    /\ sock = "connecting"

(***************************************************************************)
(* C18: an operation leaves the objects it was given as they were.         *)
(***************************************************************************)
C18Claim == options # NoCall => caller = options

(***************************************************************************)
(* C16: decoding the text a value was serialized to gives the value.       *)
(***************************************************************************)
C16Claim == (plain # NoValue /\ decoded # NoValue) => decoded = plain

(***************************************************************************)
(* The strings of digits up to 2^64 - 1 in a parsed text w, wherever they  *)
(* are, are the same strings at the same place in what decode returned, d  *)
(* (the place of a property being the name decode gives the property).     *)
(***************************************************************************)
RECURSIVE KeepsDigitStrings(_, _)
KeepsDigitStrings(w, d) ==
    CASE w.t = "str" -> (IsDigits(w.s) /\ LeqU64(w.s)) => d = w
      [] w.t = "arr" ->
            /\ d.t = "arr"
            /\ Len(d.items) = Len(w.items)
            /\ \A i \in 1..Len(w.items) : KeepsDigitStrings(w.items[i], d.items[i])
      [] w.t = "obj" ->
            /\ d.t = "obj"
            /\ \A i \in 1..Len(w.entries) :
                  (\A j \in 1..Len(w.entries) :
                      j # i => ParsedKey(w.entries[j].key) # ParsedKey(w.entries[i].key))
                  => /\ HasOwn(d.entries, ParsedKey(w.entries[i].key))
                     /\ KeepsDigitStrings(w.entries[i].val,
                                          Get(d.entries, ParsedKey(w.entries[i].key)))
      [] OTHER -> TRUE

IsCanonicalNumeric(key) == IsDigits(key) /\ StripZeros(key) = key

\* the key an entry is expected under: the key itself, or its hash
ExpectedKey(key) == IF IsCanonicalNumeric(key) THEN key ELSE convertCustomKey(key)

\* an object all of whose Pointer fields can be resolved
FieldsResolvable(v) ==
    v.t = "obj" /\ ResolveFields(<<>>, v.entries).thrown = None

\* the object after the field resolution of a single value
FieldsResolved(v) == Obj(ResolveFields(<<>>, v.entries).entries)

(***************************************************************************)
(* C21: the envelope updateBulk builds holds, for every entry of the map   *)
(* of explicit keys whose value is an object with resolvable fields, under *)
(* the key (canonical numeric) or its hash, the JSON text of the value     *)
(* with each Timestamp field replaced by its string and each Pointer field *)
(* replaced by [keyspace, key].                                            *)
(***************************************************************************)
C21Claim ==
    (Called("updateBulk") /\ outcome.t = "sent") =>
        \A i \in 1..Len(options.args.bulkKeysValues.entries) :
            LET e == options.args.bulkKeysValues.entries[i]
                sent == outcome.query.bulk_keys_values.entries
            IN  FieldsResolvable(e.val) =>
                    /\ HasOwn(sent, ExpectedKey(e.key))
                    /\ Get(sent, ExpectedKey(e.key))
                           = Str(Stringify(FieldsResolved(e.val)))

\* the schema option the operation passes to convertToBinaryQuery
SchemaOption ==
    IF options.op \in {"lookupKeysWhere", "lookupValuesWhere"}
    THEN options.args.schema
    ELSE Null

\* the tags the elements of a bulk list carry
TagsOf(bulk) ==
    {TagOf(bulk[i]) : i \in {j \in 1..Len(bulk) : TagOf(bulk[j]) # Null}}

\* the operation was given a value or a bulk element that carries a tag
CarriesTag ==
    \/ Called("insertValue") /\ TagOf(options.args.value) # Null
    \/ Called("insertBulk") /\ TagsOf(options.args.bulk) # {}

\* a serialized value is the text of an object without a schema property
TextWithoutTag(text) ==
    /\ JSONbigParse(text).t = "obj"
    /\ ~HasOwn(JSONbigParse(text).entries, SchemaKey)

C24Claim ==
    (Called("updateBulk") /\ outcome.t = "sent") =>
        Len(outcome.query.bulk_keys_values.entries)
            = Len(options.args.bulkKeysValues.entries)
                + Len(options.args.bulkCustomKeysValues.entries)

(***************************************************************************)
(* C30: when convertToBinaryQuery throws (a Pointer that cannot be         *)
(* resolved, or bulk values with different schemas), the objects the       *)
(* operation was given are as they were before the call.                   *)
(***************************************************************************)
C30Claim ==
    (/\ options # NoCall
     /\ outcome.t = "thrown"
     /\ outcome.message \in {InvalidPointer, SchemaMismatch})
        => caller = options

(***************************************************************************)
(* C25: when the text decoded is an object, the decoded map has as many    *)
(* entries as the object, and every key of the object that is not          *)
(* entirely a decimal number is a key of the decoded map.                  *)
(***************************************************************************)
C25Claim ==
    (decoded # NoValue /\ JSONbigParse(encoded).t = "obj") =>
        LET object == JSONbigParse(encoded).entries
        IN  /\ decoded.t = "obj"
            /\ Len(decoded.entries) = Len(object)
            /\ \A i \in 1..Len(object) :
                  ~IsDigits(object[i].key) => HasOwn(decoded.entries, object[i].key)

(***************************************************************************)
(* Whether decoding data makes a call of the string branch whose recursive *)
(* call is given the string the call itself was given.                     *)
(***************************************************************************)
RECURSIVE UnwrapsItself(_)
UnwrapsItself(data) ==
    CASE data.t = "str" ->
            /\ ~IsU64String(data.s)
            /\ JSONbigParse(data.s).t # "error"
            /\ \/ CallsItself(data, JSONbigParse(data.s))
               \/ UnwrapsItself(JSONbigParse(data.s))
      [] data.t = "arr" ->
            \E i \in 1..Len(data.items) : UnwrapsItself(data.items[i])
      [] data.t = "obj" ->
            \E i \in 1..Len(data.entries) : UnwrapsItself(data.entries[i].val)
      [] OTHER -> FALSE

(***************************************************************************)
(* C28: in decoding a text, every recursive call the string branch makes   *)
(* is given a value different from the string the call was given.          *)
(***************************************************************************)
C28Claim == decoded # NoValue => ~UnwrapsItself(Str(encoded))

(***************************************************************************)
(* C29: once stop() has been called, also by the callback while the loop   *)
(* of a 'data' event is at a line, the callback has been invoked for no    *)
(* line after the line the loop was at when stop() was first called.       *)
(***************************************************************************)
C29Theorem ==
    stopCalls > 0 =>
        \A i \in 1..Len(delivered) : delivered[i].line <= stopLine

\* the callback called stop() at a frame, and the loop of the same event
\* went on to a later frame of the chunk
C29Witness ==
    /\ stopCalls > 0
    /\ delivered # <<>>
    /\ Last(delivered).line = stopLine
    /\ \E n \in stopLine + 1..linesSeen :
          Trim(CompleteLines(rx)[n]) # <<>>

(***************************************************************************)
(* C23: every envelope written to the wire for an operation carries the    *)
(* command of that operation, whatever the class's command field holds     *)
(* when the envelope is written.                                           *)
(***************************************************************************)
C23Theorem ==
    \A i \in 1..Len(calls) :
        (calls[i].written # NoValue /\ calls[i].op # "runQuery") =>
            calls[i].written.command = OperationCommand(calls[i].op)

\* the envelope of a getValue was written after an insertValue, started
\* later and still connecting, had set the class's command field
C23Witness ==
    \E i, j \in 1..Len(calls) :
        /\ i < j
        /\ calls[i].op = "getValue"
        /\ calls[i].written # NoValue
        /\ calls[i].commandThen = "insert_value"
        /\ calls[j].op = "insertValue"
        /\ calls[j].written = NoValue

(***************************************************************************)
(* C26: the class's port stays the port it was configured with; every      *)
(* request-response call connects to that port, and all subscription calls *)
(* connect to one and the same port.                                       *)
(***************************************************************************)
C26Claim ==
    /\ clsPort = ConfiguredPort
    /\ \A i \in 1..Len(calls) :
          ~calls[i].subscribe => calls[i].port = ConfiguredPort
    /\ \A i, j \in 1..Len(calls) :
          (calls[i].subscribe /\ calls[j].subscribe) =>
              calls[i].port = calls[j].port

(***************************************************************************)
(* C27: on a class connected to an Engine configured with useTls = true,   *)
(* every call of sendData that runQuery makes is made with useTls true.    *)
(***************************************************************************)
C27Claim ==
    clsUseTls => \A i \in 1..Len(calls) : calls[i].useTls

====
